---- MODULE Spec2Model ----
(***************************************************************************)
(* Model of core/src/nodes/protocols_handler.rs: the NodeHandlerWrapper    *)
(* adapter that turns a ProtocolsHandler into a NodeHandler, together with *)
(* its builder.  The wrapped handler, the multiplexer and the negotiation  *)
(* futures are the environment: the handler's poll() result, the calls the *)
(* multiplexer makes and the progress of each future are inputs.           *)
(* DummyProtocolsHandler, MapInEvent and MapOutEvent are modelled on their *)
(* own, each under its own specification (SpecDummy, SpecMapIn,            *)
(* SpecMapOut).                                                            *)
(* SpecDrain is poll() on its own, started with the collections already   *)
(* holding pending negotiations.                                           *)
(***************************************************************************)
EXTENDS Integers, Sequences, FiniteSets, Bags, TLC

(* ---------------------------------------------------------------------- *)
(* Bounds of the model and program constants                              *)
(* ---------------------------------------------------------------------- *)

\* Number of inputs a run feeds the adapter: timeouts the builder was given
\* that differ from the default, OutboundSubstreamRequest events the wrapped
\* handler produces and raw substreams the multiplexer delivers.
MaxWork == 3

\* Largest number of negotiations the two collections hold together when
\* the drain loops of poll() are examined on their own.
MaxDrain == 3

\* Duration::from_secs(10), the builder's default for both timeouts.
DefaultTimeoutSecs == 10

\* Durations the builder's setters are called with.
Durations == {1, DefaultTimeoutSecs}

\* Correlation data (TProtoHandler::OutboundOpenInfo) values.
Infos == {"A", "B"}

\* Custom events (TProtoHandler::OutEvent) and input events (InEvent).
OutEvents == {"c1"}
InEvents == {"e1"}

\* What the wrapped handler may ask for in an OutboundSubstreamRequest.
Requests == {[upgrade |-> "u1", info |-> "A"], [upgrade |-> "u2", info |-> "B"]}


VARIABLES
    status,                  \* "builder", "running", "finished", "failed", "panicked";
                             \* "absent" where no adapter is built
    debug_assertions,        \* whether debug_assert! is compiled in
    in_timeout,              \* builder / adapter field
    out_timeout,             \* builder / adapter field
    negotiating_in,          \* Vec<Timeout<UpgradeApplyFuture>>
    negotiating_out,         \* Vec<(OutboundOpenInfo, Timeout<UpgradeApplyFuture>)>
    queued_dial_upgrades,    \* Vec<(u64, Protocol)>
    unique_dial_upgrade_id,  \* u64
    next_sub,                \* number of substreams the multiplexer has delivered
    last,                    \* the step just taken: the operation and the id it was given
    trace,                   \* calls made on the wrapped handler by that step, in order
    ret,                     \* what that step returned
    hret,                    \* what handler.poll() returned in that step
    advanced,                \* the negotiation futures that step polled, in order
    calls,                   \* bag of the negotiation outcomes delivered to the handler so far
    emitted,                 \* every OutboundSubstreamRequest the adapter has emitted
    shutting_down,           \* DummyProtocolsHandler field
    map,                     \* the closure of a MapInEvent / MapOutEvent
    applied,                 \* the arguments that step applied the closure to, in order
    log                      \* the operations called on a handler so far, with their results

vars == <<status, debug_assertions, in_timeout, out_timeout, negotiating_in,
          negotiating_out, queued_dial_upgrades, unique_dial_upgrade_id,
          next_sub, last, trace, ret, hret, advanced, calls, emitted,
          shutting_down, map, applied, log>>

\* The state of the handlers that are modelled on their own (the null handler
\* and the two event-mapping wrappers).
handlers == <<shutting_down, map, applied, log>>

adapter == <<in_timeout, out_timeout, negotiating_in, negotiating_out,
             queued_dial_upgrades, unique_dial_upgrade_id>>

(* ---------------------------------------------------------------------- *)
(* Values                                                                 *)
(* ---------------------------------------------------------------------- *)

NoOutput == [sub |-> -1, proto |-> "none", endpoint |-> "none"]
NoError == [kind |-> "none", msg |-> ""]

\* A call on the wrapped handler.  req is no argument of the call: it is the
\* dial-upgrade id the call settles (-1 when there is none), kept to state
\* properties per id.
HCall(call, output, endpoint, info, error, event, req) ==
    [call |-> call, output |-> output, endpoint |-> endpoint, info |-> info,
     error |-> error, event |-> event, req |-> req]

listen_protocol_call == HCall("listen_protocol", NoOutput, "none", "none", NoError, "none", -1)
handler_poll_call == HCall("poll", NoOutput, "none", "none", NoError, "none", -1)
inject_event_call(event) == HCall("inject_event", NoOutput, "none", "none", NoError, event, -1)
inject_inbound_closed_call == HCall("inject_inbound_closed", NoOutput, "none", "none", NoError, "none", -1)
shutdown_call == HCall("shutdown", NoOutput, "none", "none", NoError, "none", -1)
inject_fully_negotiated_call(output, endpoint, info, req) ==
    HCall("inject_fully_negotiated", output, endpoint, info, NoError, "none", req)
inject_dial_upgrade_error_call(info, error, req) ==
    HCall("inject_dial_upgrade_error", NoOutput, "none", info, error, "none", req)

\* The protocol the wrapped handler listens with (handler.listen_protocol()).
ListenProtocol == "listen"

\* Results of the wrapped handler's poll().
HandlerPollResult(kind, event, upgrade, info) ==
    [kind |-> kind, event |-> event, upgrade |-> upgrade, info |-> info]

HandlerPollResults ==
    {HandlerPollResult(k, "none", "none", "none") : k \in {"NotReady", "ReadyNone", "Err"}}
    \cup {HandlerPollResult("Custom", e, "none", "none") : e \in OutEvents}
    \cup {HandlerPollResult("OutboundSubstreamRequest", "none", r.upgrade, r.info) : r \in Requests}

NoHandlerPoll == HandlerPollResult("none", "none", "none", "none")

\* Results of the adapter's poll() and of the operations that return ().
NodeResult(kind, event, id, info) ==
    [kind |-> kind, event |-> event, id |-> id, info |-> info]

\* The operation a step performed, with the dial-upgrade id it was given.
Last(op, id) == [op |-> op, id |-> id]

Unit == NodeResult("unit", "none", -1, "none")
Panic == NodeResult("panic", "none", -1, "none")


(* ---------------------------------------------------------------------- *)
(* Negotiation futures: Timeout<UpgradeApplyFuture<..>>                   *)
(* ---------------------------------------------------------------------- *)

\* A negotiation that is always given the default timeout.
TimeoutNewDefault(substream, upgrade, endpoint, timeout, req) ==
    [sub |-> substream, upgrade |-> upgrade, endpoint |-> endpoint,
     timeout |-> DefaultTimeoutSecs, st |-> "pending", req |-> req]

\* Timeout::new(upgrade::apply(substream, upgrade, endpoint), timeout).
\* req is the dial-upgrade id the substream was matched with (-1 when
\* listening); the program does not store it, it is kept to state properties.
TimeoutNew(substream, upgrade, endpoint, timeout, req) ==
    [sub |-> substream, upgrade |-> upgrade, endpoint |-> endpoint,
     timeout |-> timeout, st |-> "pending", req |-> req]

\* The output of a successful negotiation.
Output(fut) == [sub |-> fut.sub, proto |-> fut.upgrade, endpoint |-> fut.endpoint]

\* A future without its Timeout wrapper: a passed deadline is not reported.
FuturePollIgnoresTimeout(fut) ==
    CASE fut.st = "ready" -> "Ready"
      [] fut.st = "failed" -> "Err"
      [] OTHER -> "NotReady"

\* in_progress.poll(): Ok(Ready(output)), Ok(NotReady) or Err(_).
FuturePoll(fut) ==
    CASE fut.st = "ready" -> "Ready"
      [] fut.st = "pending" -> "NotReady"
      [] OTHER -> "Err"

\* format!("Error while upgrading: {:?}", err) wrapped in io::ErrorKind::Other.
UpgradeError(fut) ==
    [kind |-> "Other",
     msg |-> IF fut.st = "elapsed" THEN "Error while upgrading: timeout"
             ELSE "Error while upgrading: negotiation failed"]

\* io::ErrorKind::ConnectionReset.into()
ConnectionReset == [kind |-> "ConnectionReset", msg |-> ""]

\* The calls of a trace, as a bag.
RECURSIVE SeqToBag(_)
SeqToBag(s) ==
    IF s = <<>> THEN EmptyBag ELSE SetToBag({Head(s)}) (+) SeqToBag(Tail(s))

(* ---------------------------------------------------------------------- *)
(* Vec helpers                                                            *)
(* ---------------------------------------------------------------------- *)

\* Vec::swap_remove(n), n counted from 1: the last element takes the place of
\* the removed one.
SwapRemove(v, n) ==
    [i \in 1..(Len(v) - 1) |-> IF i = n THEN v[Len(v)] ELSE v[i]]

\* A removal that leaves the element in place.
RemoveNothing(v, pos) == v

\* A removal that takes the element before the one asked for.
RemoveOffByOne(v, pos) ==
    [i \in 1..(Len(v) - 1) |-> IF i < pos - 1 THEN v[i] ELSE v[i + 1]]

\* Vec::remove(pos), pos counted from 1: the later elements shift left.
Remove(v, pos) ==
    [i \in 1..(Len(v) - 1) |-> IF i < pos THEN v[i] ELSE v[i + 1]]

\* iter().position(|(id, _)| id == &upgrade_id): the first index holding the
\* id, 0 for None.
Position(q, upgrade_id) ==
    IF \E i \in 1..Len(q) : q[i].id = upgrade_id
    THEN CHOOSE i \in 1..Len(q) :
            /\ q[i].id = upgrade_id
            /\ \A j \in 1..(i - 1) : q[j].id # upgrade_id
    ELSE 0

\* A counter that is never advanced.
NextIdStuck(id) == id

\* self.unique_dial_upgrade_id += 1 on a u64.  The handler produces at most
\* MaxWork requests, so the addition stays far below 2^64 and never wraps.
NextId(id) == id + 1

\* The inputs consumed so far, see MaxWork.
Work ==
    (IF in_timeout # DefaultTimeoutSecs THEN 1 ELSE 0)
    + (IF out_timeout # DefaultTimeoutSecs THEN 1 ELSE 0)
    + unique_dial_upgrade_id + next_sub

\* Ids the multiplexer may quote back: every id assigned so far, and one that
\* has not been assigned.
QuotedIds == 0..unique_dial_upgrade_id

(* ---------------------------------------------------------------------- *)
(* The builder                                                            *)
(* ---------------------------------------------------------------------- *)

\* ProtocolsHandler::into_node_handler_builder: both timeouts 10 seconds.
Init ==
    /\ status = "builder"
    /\ debug_assertions \in BOOLEAN
    /\ in_timeout = DefaultTimeoutSecs
    /\ out_timeout = DefaultTimeoutSecs
    /\ negotiating_in = <<>>
    /\ negotiating_out = <<>>
    /\ queued_dial_upgrades = <<>>
    /\ unique_dial_upgrade_id = 0
    /\ next_sub = 0
    /\ last = Last("none", -1)
    /\ trace = <<>>
    /\ ret = Unit
    /\ hret = NoHandlerPoll
    /\ advanced = <<>>
    /\ calls = EmptyBag
    /\ emitted = <<>>
    /\ shutting_down = FALSE
    /\ map = <<>>
    /\ applied = <<>>
    /\ log = <<>>

with_in_negotiation_timeout(timeout) ==
    /\ status = "builder"
    /\ UNCHANGED handlers
    /\ in_timeout' = timeout
    /\ last' = Last("with_in_negotiation_timeout", -1)
    /\ UNCHANGED <<status, debug_assertions, out_timeout, negotiating_in,
                   negotiating_out, queued_dial_upgrades, unique_dial_upgrade_id,
                   next_sub, trace, ret, hret, advanced, calls, emitted>>

with_out_negotiation_timeout(timeout) ==
    /\ status = "builder"
    /\ UNCHANGED handlers
    /\ out_timeout' = timeout
    /\ last' = Last("with_out_negotiation_timeout", -1)
    /\ UNCHANGED <<status, debug_assertions, in_timeout, negotiating_in,
                   negotiating_out, queued_dial_upgrades, unique_dial_upgrade_id,
                   next_sub, trace, ret, hret, advanced, calls, emitted>>

build ==
    /\ status = "builder"
    /\ UNCHANGED handlers
    /\ status' = "running"
    /\ negotiating_in' = <<>>
    /\ negotiating_out' = <<>>
    /\ in_timeout' = in_timeout
    /\ out_timeout' = out_timeout
    /\ queued_dial_upgrades' = <<>>
    /\ unique_dial_upgrade_id' = 0
    /\ last' = Last("build", -1)
    /\ UNCHANGED <<debug_assertions, next_sub, trace, ret, hret, advanced, calls, emitted>>

(* ---------------------------------------------------------------------- *)
(* NodeHandler for NodeHandlerWrapper: the inject_* operations            *)
(* ---------------------------------------------------------------------- *)

\* inject_substream(substream, NodeHandlerEndpoint::Listener)
inject_substream_listener ==
    /\ status = "running"
    /\ UNCHANGED handlers
    /\ Work < MaxWork
    /\ LET protocol == ListenProtocol
           with_timeout == TimeoutNew(next_sub, protocol, "Listener", in_timeout, -1)
       IN  negotiating_in' = Append(negotiating_in, with_timeout)
    /\ next_sub' = next_sub + 1
    /\ last' = Last("inject_substream_listener", -1)
    /\ trace' = <<listen_protocol_call>>
    /\ ret' = Unit
    /\ hret' = NoHandlerPoll
    /\ advanced' = <<>>
    /\ UNCHANGED <<status, debug_assertions, in_timeout, out_timeout, negotiating_out,
                   queued_dial_upgrades, unique_dial_upgrade_id, calls, emitted>>

\* The None arm of both position() matches: debug_assert!(false, ..); return;
InvalidUpgradeId ==
    /\ status' = IF debug_assertions THEN "panicked" ELSE status
    /\ ret' = IF debug_assertions THEN Panic ELSE Unit
    /\ trace' = <<>>
    /\ hret' = NoHandlerPoll
    /\ advanced' = <<>>
    /\ UNCHANGED <<debug_assertions, in_timeout, out_timeout, negotiating_in,
                   negotiating_out, queued_dial_upgrades, unique_dial_upgrade_id,
                   calls, emitted>>

\* An element tagged with the other correlation data value.
TaggedOther(user_data, timeout) ==
    [info |-> CHOOSE d \in Infos : d # user_data, fut |-> timeout]

\* (user_data, timeout), the element pushed to negotiating_out.
Tagged(user_data, timeout) == [info |-> user_data, fut |-> timeout]

\* inject_substream(substream, NodeHandlerEndpoint::Dialer((upgrade_id, user_data)))
inject_substream_dialer(upgrade_id, user_data) ==
    /\ status = "running"
    /\ UNCHANGED handlers
    /\ Work < MaxWork
    /\ next_sub' = next_sub + 1
    /\ last' = Last("inject_substream_dialer", upgrade_id)
    /\ LET pos == Position(queued_dial_upgrades, upgrade_id) IN
       IF pos = 0
       THEN InvalidUpgradeId
       ELSE LET proto_upgrade == queued_dial_upgrades[pos].upgrade
                with_timeout == TimeoutNew(next_sub, proto_upgrade, "Dialer",
                                           out_timeout, upgrade_id)
            IN  /\ queued_dial_upgrades' = Remove(queued_dial_upgrades, pos)
                /\ negotiating_out' = Append(negotiating_out,
                                             Tagged(user_data, with_timeout))
                /\ trace' = <<>>
                /\ ret' = Unit
                /\ hret' = NoHandlerPoll
                /\ advanced' = <<>>
                /\ UNCHANGED <<status, debug_assertions, in_timeout, out_timeout,
                               negotiating_in, unique_dial_upgrade_id, calls, emitted>>

inject_inbound_closed ==
    /\ status = "running"
    /\ UNCHANGED handlers
    /\ last' = Last("inject_inbound_closed", -1)
    /\ trace' = <<inject_inbound_closed_call>>
    /\ ret' = Unit
    /\ hret' = NoHandlerPoll
    /\ advanced' = <<>>
    /\ UNCHANGED <<status, debug_assertions, in_timeout, out_timeout, negotiating_in,
                   negotiating_out, queued_dial_upgrades, unique_dial_upgrade_id,
                   next_sub, calls, emitted>>

\* inject_outbound_closed(user_data) with user_data = (upgrade_id, info)
inject_outbound_closed(upgrade_id, info) ==
    /\ status = "running"
    /\ UNCHANGED handlers
    /\ last' = Last("inject_outbound_closed", upgrade_id)
    /\ UNCHANGED next_sub
    /\ LET pos == Position(queued_dial_upgrades, upgrade_id) IN
       IF pos = 0
       THEN InvalidUpgradeId
       ELSE LET call == inject_dial_upgrade_error_call(info, ConnectionReset, upgrade_id) IN
            /\ queued_dial_upgrades' = Remove(queued_dial_upgrades, pos)
            /\ trace' = <<call>>
            /\ calls' = calls (+) SetToBag({call})
            /\ ret' = Unit
            /\ hret' = NoHandlerPoll
            /\ advanced' = <<>>
            /\ UNCHANGED <<status, debug_assertions, in_timeout, out_timeout,
                           negotiating_in, negotiating_out, unique_dial_upgrade_id,
                           emitted>>

inject_event(event) ==
    /\ status = "running"
    /\ UNCHANGED handlers
    /\ last' = Last("inject_event", -1)
    /\ trace' = <<inject_event_call(event)>>
    /\ ret' = Unit
    /\ hret' = NoHandlerPoll
    /\ advanced' = <<>>
    /\ UNCHANGED <<status, debug_assertions, in_timeout, out_timeout, negotiating_in,
                   negotiating_out, queued_dial_upgrades, unique_dial_upgrade_id,
                   next_sub, calls, emitted>>

\* A shutdown() that also drops the adapter's own work.
shutdown_discarding_work ==
    /\ status = "running"
    /\ UNCHANGED handlers
    /\ last' = Last("shutdown", -1)
    /\ trace' = <<shutdown_call>>
    /\ ret' = Unit
    /\ hret' = NoHandlerPoll
    /\ advanced' = <<>>
    /\ negotiating_in' = <<>>
    /\ negotiating_out' = <<>>
    /\ queued_dial_upgrades' = <<>>
    /\ UNCHANGED <<status, debug_assertions, in_timeout, out_timeout,
                   unique_dial_upgrade_id, next_sub, calls, emitted>>

shutdown ==
    /\ status = "running"
    /\ UNCHANGED handlers
    /\ last' = Last("shutdown", -1)
    /\ trace' = <<shutdown_call>>
    /\ ret' = Unit
    /\ hret' = NoHandlerPoll
    /\ advanced' = <<>>
    /\ UNCHANGED <<status, debug_assertions, in_timeout, out_timeout, negotiating_in,
                   negotiating_out, queued_dial_upgrades, unique_dial_upgrade_id,
                   next_sub, calls, emitted>>

(* ---------------------------------------------------------------------- *)
(* NodeHandlerWrapper::poll                                               *)
(* ---------------------------------------------------------------------- *)

\* A future that was polled, and what its poll() returned.
Advanced(fut) ==
    [sub |-> fut.sub, endpoint |-> fut.endpoint, result |-> FuturePoll(fut)]

\* An inbound loop that reports a failure to the handler, as the outbound one does.
InboundCallsReportFailure(in_progress) ==
    CASE FuturePoll(in_progress) = "Ready" ->
            <<inject_fully_negotiated_call(Output(in_progress), "Listener", "none", -1)>>
      [] FuturePoll(in_progress) = "NotReady" -> <<>>
      [] OTHER ->
            <<inject_dial_upgrade_error_call("none", UpgradeError(in_progress), -1)>>

\* An inbound loop that makes no call for a negotiated substream.
InboundCallsForgotten(in_progress) == <<>>

\* The inbound loop's match arms, as the calls made on the handler: a failure
\* is dropped without a call.
InboundCalls(in_progress) ==
    CASE FuturePoll(in_progress) = "Ready" ->
            <<inject_fully_negotiated_call(Output(in_progress), "Listener", "none", -1)>>
      [] FuturePoll(in_progress) = "NotReady" -> <<>>
      [] OTHER -> <<>>

\* An outbound loop that drops a failure without a call, as the inbound one does.
OutboundCallsSilent(upgr_info, in_progress) ==
    IF FuturePoll(in_progress) = "Ready"
    THEN <<inject_fully_negotiated_call(Output(in_progress), "Dialer", upgr_info,
                                        in_progress.req)>>
    ELSE <<>>

\* An outbound loop that reports a negotiated substream and then an error
\* for it as well.
OutboundCallsBoth(upgr_info, in_progress) ==
    CASE FuturePoll(in_progress) = "Ready" ->
            <<inject_fully_negotiated_call(Output(in_progress), "Dialer", upgr_info,
                                           in_progress.req),
              inject_dial_upgrade_error_call(upgr_info, UpgradeError(in_progress),
                                             in_progress.req)>>
      [] FuturePoll(in_progress) = "NotReady" -> <<>>
      [] OTHER ->
            <<inject_dial_upgrade_error_call(upgr_info, UpgradeError(in_progress),
                                             in_progress.req)>>

\* The outbound loop's match arms, as the calls made on the handler.
OutboundCalls(upgr_info, in_progress) ==
    CASE FuturePoll(in_progress) = "Ready" ->
            <<inject_fully_negotiated_call(Output(in_progress), "Dialer", upgr_info,
                                           in_progress.req)>>
      [] FuturePoll(in_progress) = "NotReady" -> <<>>
      [] OTHER ->
            <<inject_dial_upgrade_error_call(upgr_info, UpgradeError(in_progress),
                                             in_progress.req)>>

\* A NotReady arm that puts the element back at the front of the collection.
PushFront(removed, element, polled) ==
    IF polled = "NotReady" THEN <<element>> \o removed ELSE removed

\* The NotReady arm of both loops pushes the element back; the other arms
\* leave it removed.
PushBack(removed, element, polled) ==
    IF polled = "NotReady" THEN Append(removed, element) ELSE removed

\* for n in (0..self.negotiating_in.len()).rev() { .. }: n runs from the last
\* index down to the first; tr collects the calls made on the handler and adv
\* the futures polled.
RECURSIVE DrainIn(_, _, _, _)
DrainIn(v, n, tr, adv) ==
    IF n = 0 THEN [vec |-> v, trace |-> tr, advanced |-> adv]
    ELSE LET in_progress == v[n]
             removed == SwapRemove(v, n)
         IN  DrainIn(PushBack(removed, in_progress, FuturePoll(in_progress)), n - 1,
                     tr \o InboundCalls(in_progress),
                     Append(adv, Advanced(in_progress)))

\* for n in (0..self.negotiating_out.len()).rev() { .. }
RECURSIVE DrainOut(_, _, _, _)
DrainOut(v, n, tr, adv) ==
    IF n = 0 THEN [vec |-> v, trace |-> tr, advanced |-> adv]
    ELSE LET upgr_info == v[n].info
             in_progress == v[n].fut
             removed == SwapRemove(v, n)
         IN  DrainOut(PushBack(removed, [info |-> upgr_info, fut |-> in_progress],
                               FuturePoll(in_progress)),
                      n - 1,
                      tr \o OutboundCalls(upgr_info, in_progress),
                      Append(adv, Advanced(in_progress)))

\* A poll() that reports pending when the handler has finished.
PollReturnSwallowsNone(polled, id) ==
    CASE polled.kind = "Err" -> NodeResult("Err", "none", -1, "none")
      [] polled.kind = "Custom" -> NodeResult("Custom", polled.event, -1, "none")
      [] polled.kind = "OutboundSubstreamRequest" ->
            NodeResult("OutboundSubstreamRequest", "none", id, polled.info)
      [] OTHER -> NodeResult("NotReady", "none", -1, "none")

\* A poll() that advances the counter before reading the id it emits.
PollReturnIdAfterIncrement(polled, id) ==
    CASE polled.kind = "Err" -> NodeResult("Err", "none", -1, "none")
      [] polled.kind = "Custom" -> NodeResult("Custom", polled.event, -1, "none")
      [] polled.kind = "OutboundSubstreamRequest" ->
            NodeResult("OutboundSubstreamRequest", "none", id + 1, polled.info)
      [] polled.kind = "ReadyNone" -> NodeResult("ReadyNone", "none", -1, "none")
      [] OTHER -> NodeResult("NotReady", "none", -1, "none")

\* A poll() that fails when the handler is merely pending.
PollReturnErrWhenPending(polled, id) ==
    CASE polled.kind = "Err" -> NodeResult("Err", "none", -1, "none")
      [] polled.kind = "Custom" -> NodeResult("Custom", polled.event, -1, "none")
      [] polled.kind = "OutboundSubstreamRequest" ->
            NodeResult("OutboundSubstreamRequest", "none", id, polled.info)
      [] polled.kind = "ReadyNone" -> NodeResult("ReadyNone", "none", -1, "none")
      [] OTHER -> NodeResult("Err", "none", -1, "none")

\* match self.handler.poll()? { .. }: what poll() returns for each handler result.
PollReturn(polled, id) ==
    CASE polled.kind = "Err" -> NodeResult("Err", "none", -1, "none")
      [] polled.kind = "Custom" -> NodeResult("Custom", polled.event, -1, "none")
      [] polled.kind = "OutboundSubstreamRequest" ->
            NodeResult("OutboundSubstreamRequest", "none", id, polled.info)
      [] polled.kind = "ReadyNone" -> NodeResult("ReadyNone", "none", -1, "none")
      [] OTHER -> NodeResult("NotReady", "none", -1, "none")

\* A poll() that advances the counter by two for each request.
PollNextIdByTwo(polled, id) ==
    IF polled.kind = "OutboundSubstreamRequest" THEN id + 2 ELSE id

\* The id counter after the handler's result has been matched.
PollNextId(polled, id) ==
    IF polled.kind = "OutboundSubstreamRequest" THEN NextId(id) ELSE id

\* A poll() that forgets the oldest queued upgrade when the handler asks for
\* nothing.
PollQueueDropsOldest(polled, q, id) ==
    IF polled.kind = "OutboundSubstreamRequest"
    THEN Append(q, [id |-> id, upgrade |-> polled.upgrade])
    ELSE IF q = <<>> THEN q ELSE Tail(q)

\* A poll() that queues the upgrade under the id that follows the emitted one.
PollQueueNextId(polled, q, id) ==
    IF polled.kind = "OutboundSubstreamRequest"
    THEN Append(q, [id |-> id + 1, upgrade |-> polled.upgrade])
    ELSE q

\* The queue after the handler's result has been matched.
PollQueue(polled, q, id) ==
    IF polled.kind = "OutboundSubstreamRequest"
    THEN Append(q, [id |-> id, upgrade |-> polled.upgrade])
    ELSE q

\* A poll() that runs the outbound loop before the inbound one.
PollCallsOutboundFirst(inbound, outbound) == outbound \o inbound \o <<handler_poll_call>>

\* The calls poll() makes on the wrapped handler, in order: those of the
\* first loop, those of the second loop, then handler.poll().
PollCalls(inbound, outbound) == inbound \o outbound \o <<handler_poll_call>>

\* poll(), with polled the result of the wrapped handler's poll().
poll(polled) ==
    /\ status = "running"
    /\ UNCHANGED handlers
    /\ polled.kind = "OutboundSubstreamRequest" => Work < MaxWork
    /\ LET din == DrainIn(negotiating_in, Len(negotiating_in), <<>>, <<>>)
           dout == DrainOut(negotiating_out, Len(negotiating_out), <<>>, <<>>)
           id == unique_dial_upgrade_id
           result == PollReturn(polled, id)
       IN  /\ negotiating_in' = din.vec
           /\ negotiating_out' = dout.vec
           /\ trace' = PollCalls(din.trace, dout.trace)
           /\ advanced' = din.advanced \o dout.advanced
           /\ calls' = calls (+) SeqToBag(din.trace \o dout.trace)
           /\ hret' = polled
           /\ unique_dial_upgrade_id' = PollNextId(polled, id)
           /\ queued_dial_upgrades' = PollQueue(polled, queued_dial_upgrades, id)
           /\ ret' = result
           /\ emitted' = IF result.kind = "OutboundSubstreamRequest"
                         THEN Append(emitted, [id |-> result.id, info |-> result.info])
                         ELSE emitted
           /\ status' = CASE result.kind = "Err" -> "failed"
                          [] result.kind = "ReadyNone" -> "finished"
                          [] OTHER -> "running"
    /\ last' = Last("poll", -1)
    /\ UNCHANGED <<debug_assertions, in_timeout, out_timeout, next_sub>>

(* ---------------------------------------------------------------------- *)
(* The environment: progress of the negotiation futures                   *)
(* ---------------------------------------------------------------------- *)

\* What a pending negotiation can turn into between two polls: the remote
\* completes the handshake, the handshake fails, or the deadline passes.
Outcomes == {"ready", "failed", "elapsed"}

\* A pending inbound negotiation makes progress.
upgrade_progress_in(i, outcome) ==
    /\ status = "running"
    /\ UNCHANGED handlers
    /\ i \in 1..Len(negotiating_in)
    /\ negotiating_in[i].st = "pending"
    /\ negotiating_in' = [negotiating_in EXCEPT ![i].st = outcome]
    /\ last' = Last("upgrade_progress_in", -1)
    /\ trace' = <<>>
    /\ ret' = Unit
    /\ hret' = NoHandlerPoll
    /\ advanced' = <<>>
    /\ UNCHANGED <<status, debug_assertions, in_timeout, out_timeout, negotiating_out,
                   queued_dial_upgrades, unique_dial_upgrade_id, next_sub,
                   calls, emitted>>

\* A pending outbound negotiation makes progress.
upgrade_progress_out(i, outcome) ==
    /\ status = "running"
    /\ UNCHANGED handlers
    /\ i \in 1..Len(negotiating_out)
    /\ negotiating_out[i].fut.st = "pending"
    /\ negotiating_out' = [negotiating_out EXCEPT ![i].fut.st = outcome]
    /\ last' = Last("upgrade_progress_out", -1)
    /\ trace' = <<>>
    /\ ret' = Unit
    /\ hret' = NoHandlerPoll
    /\ advanced' = <<>>
    /\ UNCHANGED <<status, debug_assertions, in_timeout, out_timeout, negotiating_in,
                   queued_dial_upgrades, unique_dial_upgrade_id, next_sub,
                   calls, emitted>>

(* ---------------------------------------------------------------------- *)
(* Specification                                                          *)
(* ---------------------------------------------------------------------- *)

Next ==
    \/ \E timeout \in Durations : with_in_negotiation_timeout(timeout)
    \/ \E timeout \in Durations : with_out_negotiation_timeout(timeout)
    \/ build
    \/ inject_substream_listener
    \/ \E upgrade_id \in QuotedIds, user_data \in Infos :
          inject_substream_dialer(upgrade_id, user_data)
    \/ inject_inbound_closed
    \/ \E upgrade_id \in QuotedIds, info \in Infos :
          inject_outbound_closed(upgrade_id, info)
    \/ \E event \in InEvents : inject_event(event)
    \/ shutdown
    \/ \E polled \in HandlerPollResults : poll(polled)
    \/ \E i \in 1..MaxWork, outcome \in Outcomes : upgrade_progress_in(i, outcome)
    \/ \E i \in 1..MaxWork, outcome \in Outcomes : upgrade_progress_out(i, outcome)

Spec == Init /\ [][Next]_vars

\* Substreams the multiplexer can deliver in a run.
Subs == 0..(MaxWork - 1)

\* The inbound negotiation on substream sub resolves.
resolve_in(sub) ==
    \E i \in 1..MaxWork, outcome \in Outcomes :
        /\ i \in DOMAIN negotiating_in
        /\ negotiating_in[i].sub = sub
        /\ upgrade_progress_in(i, outcome)

\* The outbound negotiation on substream sub resolves.
resolve_out(sub) ==
    \E i \in 1..MaxWork, outcome \in Outcomes :
        /\ i \in DOMAIN negotiating_out
        /\ negotiating_out[i].fut.sub = sub
        /\ upgrade_progress_out(i, outcome)

\* The adapter is polled again and again for as long as it runs, and every
\* negotiation resolves in the end: the remote answers or the deadline of its
\* Timeout passes.
Fairness ==
    /\ WF_vars(\E polled \in HandlerPollResults : poll(polled))
    /\ \A sub \in Subs : WF_vars(resolve_in(sub))
    /\ \A sub \in Subs : WF_vars(resolve_out(sub))

SpecLive == Init /\ [][Next]_vars /\ Fairness

(* ---------------------------------------------------------------------- *)
(* The drain loops of poll() on collections of up to MaxDrain             *)
(* ---------------------------------------------------------------------- *)

\* The requests the handler has made, in the order of their ids.
DrainRequests == UNION {[1..m -> Requests] : m \in 0..MaxDrain}

\* The adapter after build(), Len(r) polls in which the handler made the
\* requests r, inject_substream(Dialer((k, info))) for each of them in the
\* order of their ids, and n times inject_substream(Listener): every
\* negotiation is pending and none has been polled.
DrainInit ==
    /\ status = "running"
    /\ debug_assertions \in BOOLEAN
    /\ in_timeout = DefaultTimeoutSecs
    /\ out_timeout = DefaultTimeoutSecs
    /\ \E n \in 0..MaxDrain, r \in DrainRequests :
          /\ n + Len(r) <= MaxDrain
          /\ negotiating_out =
                [k \in 1..Len(r) |->
                    Tagged(r[k].info,
                           TimeoutNew(k - 1, r[k].upgrade, "Dialer",
                                      DefaultTimeoutSecs, k - 1))]
          /\ negotiating_in =
                [i \in 1..n |->
                    TimeoutNew(Len(r) + i - 1, ListenProtocol, "Listener",
                               DefaultTimeoutSecs, -1)]
          /\ unique_dial_upgrade_id = Len(r)
          /\ next_sub = Len(r) + n
          /\ emitted = [k \in 1..Len(r) |-> [id |-> k - 1, info |-> r[k].info]]
          /\ last = IF n > 0 THEN Last("inject_substream_listener", -1)
                    ELSE IF Len(r) > 0 THEN Last("inject_substream_dialer", Len(r) - 1)
                    ELSE Last("build", -1)
          /\ trace = IF n > 0 THEN <<listen_protocol_call>> ELSE <<>>
    /\ queued_dial_upgrades = <<>>
    /\ ret = Unit
    /\ hret = NoHandlerPoll
    /\ advanced = <<>>
    /\ calls = EmptyBag
    /\ shutting_down = FALSE
    /\ map = <<>>
    /\ applied = <<>>
    /\ log = <<>>

\* Negotiations make progress and the adapter is polled.
DrainNext ==
    \/ \E polled \in HandlerPollResults : poll(polled)
    \/ \E i \in 1..MaxDrain, outcome \in Outcomes : upgrade_progress_in(i, outcome)
    \/ \E i \in 1..MaxDrain, outcome \in Outcomes : upgrade_progress_out(i, outcome)

SpecDrain == DrainInit /\ [][DrainNext]_vars

(* ---------------------------------------------------------------------- *)
(* Handlers modelled on their own: shared definitions                     *)
(* ---------------------------------------------------------------------- *)

\* No adapter has been built around the handler.
NoAdapter ==
    /\ status = "absent"
    /\ debug_assertions = FALSE
    /\ in_timeout = DefaultTimeoutSecs
    /\ out_timeout = DefaultTimeoutSecs
    /\ negotiating_in = <<>>
    /\ negotiating_out = <<>>
    /\ queued_dial_upgrades = <<>>
    /\ unique_dial_upgrade_id = 0
    /\ next_sub = 0
    /\ advanced = <<>>
    /\ calls = EmptyBag
    /\ emitted = <<>>

\* The adapter's variables, which no operation of a handler touches.
AdapterUnchanged ==
    UNCHANGED <<status, debug_assertions, in_timeout, out_timeout, negotiating_in,
                negotiating_out, queued_dial_upgrades, unique_dial_upgrade_id,
                next_sub, advanced, calls, emitted>>

\* An operation called on the handler, its argument and what it returned.
Logged(op, arg, result) == [op |-> op, arg |-> arg, ret |-> result]

\* Ok(Async::NotReady) and Ok(Async::Ready(None)) of a handler's poll().
NotReady == HandlerPollResult("NotReady", "none", "none", "none")
ReadyNone == HandlerPollResult("ReadyNone", "none", "none", "none")

(* ---------------------------------------------------------------------- *)
(* DummyProtocolsHandler                                                  *)
(* ---------------------------------------------------------------------- *)

\* Number of operations called on the null handler in a run.
MaxDummyCalls == 4

\* The upgrade the null handler listens with.
DeniedConnectionUpgrade == "DeniedConnectionUpgrade"

\* DummyProtocolsHandler::default()
DummyInit ==
    /\ NoAdapter
    /\ shutting_down = FALSE
    /\ map = <<>>
    /\ applied = <<>>
    /\ log = <<>>
    /\ last = Last("none", -1)
    /\ trace = <<>>
    /\ ret = Unit
    /\ hret = NoHandlerPoll

\* What an operation of the null handler leaves behind: it has no inner
\* handler to call and no closure to apply.
DummyStep(op, result) ==
    /\ Len(log) < MaxDummyCalls
    /\ last' = Last(op, -1)
    /\ ret' = result
    /\ log' = Append(log, Logged(op, "none", result))
    /\ trace' = <<>>
    /\ UNCHANGED <<hret, map, applied>>
    /\ AdapterUnchanged

Dummy_listen_protocol ==
    /\ DummyStep("listen_protocol", DeniedConnectionUpgrade)
    /\ UNCHANGED shutting_down

Dummy_inject_inbound_closed ==
    /\ DummyStep("inject_inbound_closed", Unit)
    /\ UNCHANGED shutting_down

Dummy_shutdown ==
    /\ DummyStep("shutdown", Unit)
    /\ shutting_down' = TRUE

\* A poll() that never reports terminal completion.
DummyPollNeverEnds(flag) == NotReady

\* The body of DummyProtocolsHandler::poll, with flag the shutting_down field.
DummyPoll(flag) == IF flag THEN ReadyNone ELSE NotReady

Dummy_poll ==
    /\ DummyStep("poll", DummyPoll(shutting_down))
    /\ UNCHANGED shutting_down

\* inject_fully_negotiated, inject_event and inject_dial_upgrade_error take an
\* argument of type Void (the output of DeniedConnectionUpgrade, InEvent and
\* OutboundOpenInfo), which has no value: they cannot be called.
DummyNext ==
    \/ Dummy_listen_protocol
    \/ Dummy_inject_inbound_closed
    \/ Dummy_shutdown
    \/ Dummy_poll

SpecDummy == DummyInit /\ [][DummyNext]_vars

(* ---------------------------------------------------------------------- *)
(* MapInEvent and MapOutEvent                                             *)
(* ---------------------------------------------------------------------- *)

\* Number of operations called on an event-mapping wrapper in a run.
MaxMapCalls == 2

\* Events of the wrapper's own input type (TNewIn), and None of Option.
NewInEvents == {"X", "Y"}
None == "None"

\* Events the inner handler produces, and events of the wrapper's own output
\* type (TNewOut).
InnerOutEvents == {"c1", "c2"}
NewOutEvents == {"n1", "n2"}

\* What the inner handler's poll() may return.
InnerPollResults ==
    {HandlerPollResult(k, "none", "none", "none") : k \in {"NotReady", "ReadyNone", "Err"}}
    \cup {HandlerPollResult("Custom", e, "none", "none") : e \in InnerOutEvents}
    \cup {HandlerPollResult("OutboundSubstreamRequest", "none", r.upgrade, r.info) : r \in Requests}

\* Arguments of inject_fully_negotiated: a negotiated output and its endpoint.
Negotiated ==
    {[output |-> [sub |-> 0, proto |-> ListenProtocol, endpoint |-> "Listener"],
      endpoint |-> "Listener", info |-> "none"]}
    \cup {[output |-> [sub |-> 0, proto |-> "u1", endpoint |-> "Dialer"],
           endpoint |-> "Dialer", info |-> d] : d \in Infos}

\* Errors given to inject_dial_upgrade_error.
DialErrors == {ConnectionReset}

\* What an operation of a wrapper leaves behind: the calls it made on the
\* inner handler, what the inner poll() returned, the arguments it applied
\* the closure to, and what it returned.
MapStep(op, inner_calls, inner_polled, applications, result) ==
    /\ Len(log) < MaxMapCalls
    /\ last' = Last(op, -1)
    /\ trace' = inner_calls
    /\ hret' = inner_polled
    /\ applied' = applications
    /\ ret' = result
    /\ log' = Append(log, Logged(op, "none", result))
    /\ UNCHANGED shutting_down
    /\ AdapterUnchanged

\* self.inner.<op>(..): one call on the inner handler, whose result is returned.
Forwarded(op, call, result) == MapStep(op, <<call>>, NoHandlerPoll, <<>>, result)

\* The call signatures a value given as the closure can have.  A closure or
\* fn has one signature: "by_ref" is Fn(&TNewIn) -> Option<&InEvent>,
\* "by_value" is Fn(TNewIn) -> Option<InEvent>.  Only a type written by hand
\* that implements the Fn traits itself (the unstable fn_traits feature of a
\* nightly toolchain) has both.
ClosureSignatures == {"by_ref", "by_value", "by_ref_and_by_value"}

\* where TMap: Fn(&TNewIn) -> Option<&Self::InEvent>, the bound of map_in_event.
MapInEventBound(sig) == sig \in {"by_ref", "by_ref_and_by_value"}

\* where TMap: Fn(TNewIn) -> Option<TProtoHandler::InEvent>, the bound of
\* impl ProtocolsHandler for MapInEvent: without it the wrapper has none of
\* the operations of a ProtocolsHandler.
MapInHandlerBound(sig) == sig \in {"by_value", "by_ref_and_by_value"}

\* ProtocolsHandler::map_in_event(map) around an inner handler.  The fields of
\* MapInEvent are private, so every wrapper is made here, with a closure that
\* meets the bound of map_in_event; map.f is what the closure returns when it
\* is called with an event by value.
MapInInit ==
    /\ NoAdapter
    /\ shutting_down = FALSE
    /\ map \in {[sig |-> sig, f |-> f] :
                    sig \in {g \in ClosureSignatures : MapInEventBound(g)},
                    f \in [NewInEvents -> InEvents \cup {None}]}
    /\ applied = <<>>
    /\ log = <<>>
    /\ last = Last("none", -1)
    /\ trace = <<>>
    /\ ret = Unit
    /\ hret = NoHandlerPoll

MapInEvent_listen_protocol ==
    /\ MapInHandlerBound(map.sig)
    /\ Forwarded("listen_protocol", listen_protocol_call, ListenProtocol)
    /\ UNCHANGED map

MapInEvent_inject_fully_negotiated(protocol, endpoint, info) ==
    /\ MapInHandlerBound(map.sig)
    /\ Forwarded("inject_fully_negotiated",
                 inject_fully_negotiated_call(protocol, endpoint, info, -1), Unit)
    /\ UNCHANGED map

\* if let Some(event) = (self.map)(event) { self.inner.inject_event(event); }
MapInCalls(f, event) ==
    IF f[event] # None THEN <<inject_event_call(f[event])>> ELSE <<>>

MapInEvent_inject_event(event) ==
    /\ MapInHandlerBound(map.sig)
    /\ MapStep("inject_event", MapInCalls(map.f, event), NoHandlerPoll, <<event>>, Unit)
    /\ UNCHANGED map

MapInEvent_inject_dial_upgrade_error(info, error) ==
    /\ MapInHandlerBound(map.sig)
    /\ Forwarded("inject_dial_upgrade_error",
                 inject_dial_upgrade_error_call(info, error, -1), Unit)
    /\ UNCHANGED map

MapInEvent_inject_inbound_closed ==
    /\ MapInHandlerBound(map.sig)
    /\ Forwarded("inject_inbound_closed", inject_inbound_closed_call, Unit)
    /\ UNCHANGED map

MapInEvent_shutdown ==
    /\ MapInHandlerBound(map.sig)
    /\ Forwarded("shutdown", shutdown_call, Unit)
    /\ UNCHANGED map

\* self.inner.poll(), with polled what the inner handler returns.
MapInEvent_poll(polled) ==
    /\ MapInHandlerBound(map.sig)
    /\ MapStep("poll", <<handler_poll_call>>, polled, <<>>, polled)
    /\ UNCHANGED map

MapInNext ==
    \/ MapInEvent_listen_protocol
    \/ \E n \in Negotiated :
          MapInEvent_inject_fully_negotiated(n.output, n.endpoint, n.info)
    \/ \E event \in NewInEvents : MapInEvent_inject_event(event)
    \/ \E info \in Infos, error \in DialErrors :
          MapInEvent_inject_dial_upgrade_error(info, error)
    \/ MapInEvent_inject_inbound_closed
    \/ MapInEvent_shutdown
    \/ \E polled \in InnerPollResults : MapInEvent_poll(polled)

SpecMapIn == MapInInit /\ [][MapInNext]_vars

\* ProtocolsHandler::map_out_event(map) around an inner handler.
MapOutInit ==
    /\ NoAdapter
    /\ shutting_down = FALSE
    /\ map \in [InnerOutEvents -> NewOutEvents]
    /\ applied = <<>>
    /\ log = <<>>
    /\ last = Last("none", -1)
    /\ trace = <<>>
    /\ ret = Unit
    /\ hret = NoHandlerPoll

MapOutEvent_listen_protocol ==
    /\ Forwarded("listen_protocol", listen_protocol_call, ListenProtocol)
    /\ UNCHANGED map

MapOutEvent_inject_fully_negotiated(protocol, endpoint, info) ==
    /\ Forwarded("inject_fully_negotiated",
                 inject_fully_negotiated_call(protocol, endpoint, info, -1), Unit)
    /\ UNCHANGED map

MapOutEvent_inject_event(event) ==
    /\ Forwarded("inject_event", inject_event_call(event), Unit)
    /\ UNCHANGED map

MapOutEvent_inject_dial_upgrade_error(info, error) ==
    /\ Forwarded("inject_dial_upgrade_error",
                 inject_dial_upgrade_error_call(info, error, -1), Unit)
    /\ UNCHANGED map

MapOutEvent_inject_inbound_closed ==
    /\ Forwarded("inject_inbound_closed", inject_inbound_closed_call, Unit)
    /\ UNCHANGED map

MapOutEvent_shutdown ==
    /\ Forwarded("shutdown", shutdown_call, Unit)
    /\ UNCHANGED map

\* A poll() that returns the inner handler's event without mapping it.
MapOutPollUnmapped(f, polled) == polled

\* Ok(self.inner.poll()?.map(|ev| ev.map(|ev| match ev { .. }))): an error is
\* returned by the ?, NotReady and Ready(None) pass through both map calls,
\* and the match rebuilds the event.
MapOutPoll(f, polled) ==
    CASE polled.kind = "Custom" ->
            HandlerPollResult("Custom", f[polled.event], "none", "none")
      [] polled.kind = "OutboundSubstreamRequest" ->
            HandlerPollResult("OutboundSubstreamRequest", "none",
                              polled.upgrade, polled.info)
      [] OTHER -> polled

\* The arguments poll() applies the closure to.
MapOutApplied(polled) ==
    IF polled.kind = "Custom" THEN <<polled.event>> ELSE <<>>

MapOutEvent_poll(polled) ==
    /\ MapStep("poll", <<handler_poll_call>>, polled, MapOutApplied(polled),
               MapOutPoll(map, polled))
    /\ UNCHANGED map

MapOutNext ==
    \/ MapOutEvent_listen_protocol
    \/ \E n \in Negotiated :
          MapOutEvent_inject_fully_negotiated(n.output, n.endpoint, n.info)
    \/ \E event \in InEvents : MapOutEvent_inject_event(event)
    \/ \E info \in Infos, error \in DialErrors :
          MapOutEvent_inject_dial_upgrade_error(info, error)
    \/ MapOutEvent_inject_inbound_closed
    \/ MapOutEvent_shutdown
    \/ \E polled \in InnerPollResults : MapOutEvent_poll(polled)

SpecMapOut == MapOutInit /\ [][MapOutNext]_vars

(* ---------------------------------------------------------------------- *)
(* Properties                                                             *)
(* ---------------------------------------------------------------------- *)

\* Ids that can appear in a run.
Ids == 0..MaxWork

\* Number of entries of queue q holding id k.
QueuedIn(q, k) == Cardinality({i \in DOMAIN q : q[i].id = k})

\* Number of queue entries holding id k.
QueuedCount(k) == QueuedIn(queued_dial_upgrades, k)

\* Number of outbound negotiations in flight that were started for id k.
NegotiatingCount(k) ==
    Cardinality({i \in DOMAIN negotiating_out : negotiating_out[i].fut.req = k})

\* Number of calls in bag B that settle id k.
SettledIn(B, k) ==
    BagCardinality([c \in {x \in BagToSet(B) : x.req = k} |-> B[c]])

\* Number of outcome calls the handler has received for id k.
SettledCount(k) == SettledIn(calls, k)

\* Number of times a queue entry for id k was found and removed: each
\* removal either started a negotiation, which is in flight or has been
\* settled by one call, or was reported by one dial-upgrade error.
Consumed(k) == NegotiatingCount(k) + SettledCount(k)

\* C1: the ids carried by the OutboundSubstreamRequest events poll() emits are
\* 0, 1, 2, .. in emission order: pairwise distinct, strictly increasing,
\* starting at 0 and growing by exactly 1 per emitted request.
C1_IdsStrictlyIncreasing ==
    \A i \in 1..Len(emitted) : emitted[i].id = i - 1

\* Two requests have been emitted, the second by the step just taken.
C1_Witness ==
    /\ Len(emitted) >= 2
    /\ last.op = "poll"
    /\ ret.kind = "OutboundSubstreamRequest"
    /\ ret.id = emitted[Len(emitted)].id

\* C2: a queued dial upgrade is consumed at most once: for every id, the
\* entries queued for it and the removals made for it (by a matching
\* substream or by a closure report) number at most one in total, so once a
\* call has found and removed the entry, no later call referencing the id
\* finds one, starts a negotiation or delivers a callback.
C2_ConsumedOnce ==
    \A k \in Ids : QueuedCount(k) + Consumed(k) <= 1

\* Id 0 was consumed, and the step just taken is a later call quoting id 0
\* that found no entry and was absorbed.
C2_Witness ==
    /\ last.op \in {"inject_substream_dialer", "inject_outbound_closed"}
    /\ last.id = 0
    /\ status = "running"
    /\ trace = <<>>
    /\ Consumed(0) = 1
    /\ NegotiatingCount(0) = 0

\* Number of times call c occurs in trace tr.
Count(tr, c) == Cardinality({j \in DOMAIN tr : tr[j] = c})

\* Number of calls in trace tr that settle id k.
CountAbout(tr, k) == Cardinality({j \in DOMAIN tr : tr[j].req = k})

\* Number of connection-reset dial-upgrade errors the handler has received
\* for id k.
ResetCount(k) ==
    BagCardinality([c \in {x \in BagToSet(calls) :
                              /\ x.req = k
                              /\ x.call = "inject_dial_upgrade_error"
                              /\ x.error = ConnectionReset} |-> calls[c]])

\* C3: inject_outbound_closed((k, d)) for a queued id k makes exactly one
\* inject_dial_upgrade_error(d, connection reset) call and leaves k out of the
\* queue; for an id that is not queued (a second closure report among them)
\* it takes the contract-violation arm, which makes no call, changes neither
\* the queue nor the negotiations and, with debug assertions compiled in,
\* panics.  Over the whole run the handler receives at most one
\* connection-reset error per id.
C3_ClosedQueuedReportsOnce ==
    /\ [](\A k \in Ids : ResetCount(k) <= 1)
    /\ [][\A k \in QuotedIds, d \in Infos :
            inject_outbound_closed(k, d) =>
                IF QueuedCount(k) > 0
                THEN /\ trace' = <<inject_dial_upgrade_error_call(d, ConnectionReset, k)>>
                     /\ ResetCount(k)' = 1
                     /\ QueuedIn(queued_dial_upgrades', k) = 0
                     /\ Len(queued_dial_upgrades') = Len(queued_dial_upgrades) - 1
                     /\ status' = "running"
                ELSE /\ trace' = <<>>
                     /\ calls' = calls
                     /\ UNCHANGED <<queued_dial_upgrades, negotiating_in, negotiating_out>>
                     /\ debug_assertions => status' = "panicked"]_vars

\* Id 0 was closed while queued and reported once; the step just taken is a
\* second closure report for id 0, which delivered nothing.
C3_Witness ==
    /\ last = Last("inject_outbound_closed", 0)
    /\ trace = <<>>
    /\ ResetCount(0) = 1
    /\ SettledCount(0) = 1

\* The dial-upgrade error poll() delivers for a failed outbound entry e.
DialErrorFor(e) == inject_dial_upgrade_error_call(e.info, UpgradeError(e.fut), e.fut.req)

\* Whether outbound collection v holds a negotiation on substream sub.
HoldsOutbound(v, sub) == \E i \in DOMAIN v : v[i].fut.sub = sub

\* Whether inbound collection v holds a negotiation on substream sub.
HoldsInbound(v, sub) == \E i \in DOMAIN v : v[i].sub = sub

\* C4: when poll() finds an outbound negotiation failed or timed out, it makes
\* exactly one inject_dial_upgrade_error call for it, carrying the info given
\* to inject_substream(Dialer(id, info)), and no other call about that id; the
\* negotiation is gone from the outbound collection and the queue holds no
\* entry for id.  Over the whole run the handler receives that one call only.
C4_OutboundFailureReportedOnce ==
    /\ [](\A k \in Ids : SettledCount(k) <= 1)
    /\ [][last'.op = "poll" =>
            \A i \in DOMAIN negotiating_out :
                LET e == negotiating_out[i] IN
                e.fut.st \in {"failed", "elapsed"} =>
                    /\ Count(trace', DialErrorFor(e)) = 1
                    /\ CountAbout(trace', e.fut.req) = 1
                    /\ CopiesIn(DialErrorFor(e), calls') = 1
                    /\ SettledIn(calls', e.fut.req) = 1
                    /\ ~HoldsOutbound(negotiating_out', e.fut.sub)
                    /\ QueuedIn(queued_dial_upgrades', e.fut.req) = 0]_vars

\* The step just taken is a poll() that reported a timed-out outbound
\* negotiation for id 0 with its info.
C4_Witness ==
    /\ last.op = "poll"
    /\ \E j \in DOMAIN trace :
          /\ trace[j].call = "inject_dial_upgrade_error"
          /\ trace[j].req = 0
          /\ trace[j].error.msg = "Error while upgrading: timeout"
          /\ trace[j].info \in Infos
    /\ negotiating_out = <<>>

\* The call poll() makes for a negotiated inbound future f.
ListenerCallFor(f) == inject_fully_negotiated_call(Output(f), "Listener", "none", -1)

\* C5: when poll() finds an inbound negotiation complete, it makes exactly one
\* inject_fully_negotiated(output, Listener) call for it and the negotiation
\* is gone from the inbound collection; over the whole run the handler
\* receives that call once, and never for a negotiation still in the
\* collection.
C5_InboundNegotiatedOnce ==
    /\ [](\A c \in BagToSet(calls) :
            c.endpoint = "Listener" =>
                calls[c] = 1 /\ ~HoldsInbound(negotiating_in, c.output.sub))
    /\ [][last'.op = "poll" =>
            \A i \in DOMAIN negotiating_in :
                LET f == negotiating_in[i] IN
                f.st = "ready" =>
                    /\ Count(trace', ListenerCallFor(f)) = 1
                    /\ CopiesIn(ListenerCallFor(f), calls') = 1
                    /\ ~HoldsInbound(negotiating_in', f.sub)]_vars

\* The step just taken is a poll() that delivered a negotiated inbound
\* substream.
C5_Witness ==
    /\ last.op = "poll"
    /\ \E j \in DOMAIN trace :
          /\ trace[j].call = "inject_fully_negotiated"
          /\ trace[j].endpoint = "Listener"
          /\ CopiesIn(trace[j], calls) = 1
          /\ ~HoldsInbound(negotiating_in, trace[j].output.sub)

\* The call poll() makes for a negotiated outbound entry e.
DialerCallFor(e) ==
    inject_fully_negotiated_call(Output(e.fut), "Dialer", e.info, e.fut.req)

\* C6: end to end.  When the handler's poll yields OutboundSubstreamRequest
\* {upgrade, info: d}, the adapter returns OutboundSubstreamRequest((k, d)) with
\* k the next id and queues (k, upgrade); inject_substream(sub, Dialer((k, d)))
\* for a queued k starts a pending negotiation of that upgrade tagged d; and
\* the poll() that finds the negotiation complete calls
\* inject_fully_negotiated(output, Dialer(d)) exactly once, before it polls the
\* handler.
C6_EndToEnd ==
    [][/\ (last'.op = "poll" /\ hret'.kind = "OutboundSubstreamRequest") =>
            /\ ret' = NodeResult("OutboundSubstreamRequest", "none",
                                 unique_dial_upgrade_id, hret'.info)
            /\ emitted' = Append(emitted, [id |-> unique_dial_upgrade_id,
                                           info |-> hret'.info])
            /\ queued_dial_upgrades' =
                   Append(queued_dial_upgrades,
                          [id |-> unique_dial_upgrade_id, upgrade |-> hret'.upgrade])
       /\ \A k \in QuotedIds, d \in Infos :
            (inject_substream_dialer(k, d) /\ QueuedCount(k) > 0) =>
                \E q \in DOMAIN queued_dial_upgrades :
                    /\ queued_dial_upgrades[q].id = k
                    /\ negotiating_out' =
                           Append(negotiating_out,
                                  [info |-> d,
                                   fut |-> [sub |-> next_sub,
                                            upgrade |-> queued_dial_upgrades[q].upgrade,
                                            endpoint |-> "Dialer",
                                            timeout |-> out_timeout,
                                            st |-> "pending",
                                            req |-> k]])
       /\ last'.op = "poll" =>
            \A i \in DOMAIN negotiating_out :
                LET e == negotiating_out[i] IN
                e.fut.st = "ready" =>
                    /\ Count(trace', DialerCallFor(e)) = 1
                    /\ \E j \in DOMAIN trace' :
                          /\ trace'[j] = DialerCallFor(e)
                          /\ \A p \in DOMAIN trace' :
                                trace'[p] = handler_poll_call => j < p
      ]_vars

\* The handler asked for upgrade u1 with info A, the request went out as
\* (0, A), the substream came back as Dialer((0, A)), and the step just taken
\* is the poll() that delivered its output tagged Dialer(A).
C6_Witness ==
    /\ last.op = "poll"
    /\ Len(emitted) >= 1
    /\ emitted[1] = [id |-> 0, info |-> "A"]
    /\ Len(trace) >= 2
    /\ trace[1].call = "inject_fully_negotiated"
    /\ trace[1].endpoint = "Dialer"
    /\ trace[1].info = "A"
    /\ trace[1].req = 0
    /\ trace[1].output.proto = "u1"
    /\ trace[2] = handler_poll_call

\* C7: a call to inject_substream(Dialer(id, _)) or inject_outbound_closed((id, _))
\* whose id is not queued raises a defensive failure, and starts no
\* negotiation, removes no queue entry and makes no handler callback.
C7_InvalidIdFailsLoudly ==
    [][\A k \in QuotedIds, d \in Infos :
          ((inject_substream_dialer(k, d) \/ inject_outbound_closed(k, d))
           /\ QueuedCount(k) = 0) =>
              /\ status' = "panicked"
              /\ trace' = <<>>
              /\ calls' = calls
              /\ UNCHANGED <<queued_dial_upgrades, negotiating_in, negotiating_out>>
      ]_vars

\* Calls caused by inbound and by outbound negotiations.
IsInboundCall(c) == c.call = "inject_fully_negotiated" /\ c.endpoint = "Listener"
IsOutboundCall(c) ==
    \/ c.call = "inject_fully_negotiated" /\ c.endpoint = "Dialer"
    \/ c.call = "inject_dial_upgrade_error"

\* A trace whose calls are inbound ones, then outbound ones, then one poll().
StagesInOrder(tr) ==
    /\ Len(tr) >= 1
    /\ tr[Len(tr)] = handler_poll_call
    /\ Count(tr, handler_poll_call) = 1
    /\ \A i \in 1..(Len(tr) - 1) : IsInboundCall(tr[i]) \/ IsOutboundCall(tr[i])
    /\ \A i, j \in 1..(Len(tr) - 1) :
          (i < j /\ IsOutboundCall(tr[i])) => IsOutboundCall(tr[j])

\* C8: in one poll() every callback caused by an inbound negotiation precedes
\* every callback caused by an outbound one, and all of them precede the
\* handler's poll(), which is called exactly once and last; every negotiation
\* that was no longer pending when poll() was called has been resolved: it has
\* left its collection and its call, if it has one, is in the trace.
C8_PollStagesInOrder ==
    /\ [](last.op = "poll" => StagesInOrder(trace))
    /\ [][last'.op = "poll" =>
            /\ \A i \in DOMAIN negotiating_in :
                  negotiating_in[i].st # "pending" =>
                      ~HoldsInbound(negotiating_in', negotiating_in[i].sub)
            /\ \A i \in DOMAIN negotiating_in :
                  negotiating_in[i].st = "ready" =>
                      Count(trace', ListenerCallFor(negotiating_in[i])) = 1
            /\ \A i \in DOMAIN negotiating_out :
                  negotiating_out[i].fut.st # "pending" =>
                      /\ ~HoldsOutbound(negotiating_out', negotiating_out[i].fut.sub)
                      /\ CountAbout(trace', negotiating_out[i].fut.req) = 1
      ]_vars

\* The step just taken is a poll() that delivered an inbound outcome, then
\* an outbound one, then polled the handler.
C8_Witness ==
    /\ last.op = "poll"
    /\ Len(trace) = 3
    /\ IsInboundCall(trace[1])
    /\ IsOutboundCall(trace[2])
    /\ trace[3] = handler_poll_call

\* C9: poll() returns terminal completion exactly when the handler's poll()
\* did, pending exactly when the handler's poll() did, and Custom(event) with
\* the same event when the handler's poll() returned Custom(event).
C9_PollResultFollowsHandler ==
    last.op = "poll" =>
        /\ ret.kind = "ReadyNone" <=> hret.kind = "ReadyNone"
        /\ ret.kind = "NotReady" <=> hret.kind = "NotReady"
        /\ hret.kind = "Custom" => (ret.kind = "Custom" /\ ret.event = hret.event)

\* The step just taken is a poll() in which the handler finished and so did
\* the adapter.
C9_Witness ==
    /\ last.op = "poll"
    /\ hret.kind = "ReadyNone"
    /\ ret.kind = "ReadyNone"
    /\ status = "finished"

\* C10: when poll() finds an inbound negotiation failed or timed out, the
\* negotiation leaves the inbound collection, no call of the trace and no call
\* the handler has ever received is about its substream, the trace holds no
\* call beyond one per negotiated inbound substream, one per settled outbound
\* negotiation and the handler's poll(), and what poll() returns is of the
\* kind the handler's poll() returned.
C10_InboundFailureSilent ==
    [][last'.op = "poll" =>
          LET failedIn == {i \in DOMAIN negotiating_in :
                              negotiating_in[i].st \in {"failed", "elapsed"}}
              readyIn == {i \in DOMAIN negotiating_in : negotiating_in[i].st = "ready"}
              doneOut == {i \in DOMAIN negotiating_out :
                              negotiating_out[i].fut.st # "pending"}
          IN  failedIn # {} =>
                /\ \A i \in failedIn :
                      /\ ~HoldsInbound(negotiating_in', negotiating_in[i].sub)
                      /\ \A j \in DOMAIN trace' :
                            trace'[j].output.sub # negotiating_in[i].sub
                      /\ \A c \in BagToSet(calls') :
                            c.output.sub # negotiating_in[i].sub
                /\ Len(trace') = Cardinality(readyIn) + Cardinality(doneOut) + 1
                /\ ret'.kind = hret'.kind
      ]_vars

\* The step just taken is a poll() that found an inbound negotiation timed
\* out, made no call but the handler's poll() and returned pending.
C10_Witness ==
    /\ last.op = "poll"
    /\ \E j \in DOMAIN advanced :
          advanced[j].endpoint = "Listener" /\ advanced[j].result = "Err"
    /\ trace = <<handler_poll_call>>
    /\ ret.kind = "NotReady"
    /\ calls = EmptyBag

\* Whether shutdown() was called before the i-th operation of the log.
ShutdownBefore(i) == \E j \in 1..(i - 1) : log[j].op = "shutdown"

\* C11: every poll() of the null handler made before any shutdown() reports
\* pending, every poll() made after a shutdown() reports terminal completion
\* (the very next one and all later ones), and no poll() produces an
\* OutboundSubstreamRequest or a Custom event; the null handler makes no call
\* on any other handler.
C11_DummyPollFollowsShutdown ==
    /\ \A i \in DOMAIN log :
          log[i].op = "poll" =>
              /\ log[i].ret = (IF ShutdownBefore(i) THEN ReadyNone ELSE NotReady)
              /\ log[i].ret.kind \notin {"OutboundSubstreamRequest", "Custom"}
    /\ trace = <<>>
    /\ shutting_down <=> ShutdownBefore(Len(log) + 1)

\* poll() reported pending, shutdown() was called, and the next two poll()
\* calls reported terminal completion.
C11_Witness ==
    /\ Len(log) = 4
    /\ log[1].op = "poll" /\ log[1].ret = NotReady
    /\ log[2].op = "shutdown"
    /\ log[3].op = "poll" /\ log[3].ret = ReadyNone
    /\ log[4].op = "poll" /\ log[4].ret = ReadyNone
    /\ shutting_down

\* What the operations of MapInEvent do where they exist (the closure has the
\* signature the impl asks for): inject_event(e) calls the closure once on e;
\* when the closure returns None the inner handler receives no call, and when
\* it returns Some(e2) the inner handler receives exactly one call,
\* inject_event(e2).  Every other operation makes exactly one call of the
\* same operation on the inner handler with the same arguments, applies the
\* closure to nothing and returns what the inner handler returned.
MapInEventForwards ==
    [][/\ \A e \in NewInEvents :
            MapInEvent_inject_event(e) =>
                /\ applied' = <<e>>
                /\ map.f[e] = None => trace' = <<>>
                /\ map.f[e] # None => trace' = <<inject_event_call(map.f[e])>>
                /\ ret' = Unit
       /\ \A n \in Negotiated :
            MapInEvent_inject_fully_negotiated(n.output, n.endpoint, n.info) =>
                /\ trace' = <<inject_fully_negotiated_call(n.output, n.endpoint,
                                                          n.info, -1)>>
                /\ applied' = <<>>
       /\ \A d \in Infos, err \in DialErrors :
            MapInEvent_inject_dial_upgrade_error(d, err) =>
                /\ trace' = <<inject_dial_upgrade_error_call(d, err, -1)>>
                /\ applied' = <<>>
       /\ MapInEvent_inject_inbound_closed =>
            (trace' = <<inject_inbound_closed_call>> /\ applied' = <<>>)
       /\ MapInEvent_shutdown =>
            (trace' = <<shutdown_call>> /\ applied' = <<>>)
       /\ MapInEvent_listen_protocol =>
            /\ trace' = <<listen_protocol_call>>
            /\ applied' = <<>>
            /\ ret' = ListenProtocol
       /\ \A p \in InnerPollResults :
            MapInEvent_poll(p) =>
                /\ trace' = <<handler_poll_call>>
                /\ applied' = <<>>
                /\ hret' = p
                /\ ret' = p
       /\ map' = map
      ]_vars

\* The closure rejects X and accepts Y; X was injected and the inner handler
\* received nothing, then Y was injected and the inner handler received one
\* inject_event with the translated event.
MapInEventForwardsSeen ==
    /\ map.f["X"] = None
    /\ map.f["Y"] \in InEvents
    /\ Len(log) = 2
    /\ log[1].op = "inject_event"
    /\ last.op = "inject_event"
    /\ applied = <<"Y">>
    /\ trace = <<inject_event_call(map.f["Y"])>>

\* C12: a wrapper made by map_in_event from a translation function takes
\* every event of its input type: inject_event(e) can be called on it, and it
\* forwards inject_event(e2) to the inner handler when the function maps e to
\* e2 and nothing when the function maps e to nothing; its other operations
\* forward unchanged.
C12_MapInEventFilters ==
    /\ [](\A e \in NewInEvents :
            Len(log) < MaxMapCalls => ENABLED MapInEvent_inject_event(e))
    /\ MapInEventForwards

\* C13: MapOutEvent::poll() polls the inner handler once; an
\* OutboundSubstreamRequest {upgrade, info} is returned with the same upgrade
\* and info and the closure is not applied; Custom(e) is returned as
\* Custom(map(e)) with the closure applied once, to e; pending, terminal
\* completion and an error are returned as they are and the closure is not
\* applied.
C13_MapOutEventMapsCustom ==
    [][\A p \in InnerPollResults :
          MapOutEvent_poll(p) =>
              /\ trace' = <<handler_poll_call>>
              /\ hret' = p
              /\ map' = map
              /\ p.kind = "OutboundSubstreamRequest" =>
                    /\ ret'.kind = "OutboundSubstreamRequest"
                    /\ ret'.upgrade = p.upgrade
                    /\ ret'.info = p.info
                    /\ applied' = <<>>
              /\ p.kind = "Custom" =>
                    /\ ret' = HandlerPollResult("Custom", map[p.event], "none", "none")
                    /\ applied' = <<p.event>>
              /\ p.kind \in {"NotReady", "ReadyNone", "Err"} =>
                    /\ ret' = p
                    /\ applied' = <<>>
      ]_vars

\* The first poll() passed a request through untouched; the step just taken
\* is a poll() in which the inner handler produced c1 and the wrapper
\* returned the closure's translation of it.
C13_Witness ==
    /\ Len(log) = 2
    /\ log[1].op = "poll"
    /\ log[1].ret.kind = "OutboundSubstreamRequest"
    /\ log[1].ret.info = "A"
    /\ last.op = "poll"
    /\ hret = HandlerPollResult("Custom", "c1", "none", "none")
    /\ ret.kind = "Custom"
    /\ ret.event = map["c1"]
    /\ map["c1"] # map["c2"]
    /\ applied = <<"c1">>

\* C14: when poll() returns terminal completion the adapter's work has been
\* drained: the inbound collection, the outbound collection and the queue of
\* dial upgrades are all empty.
C14_TerminalOnlyWhenDrained ==
    (last.op = "poll" /\ ret.kind = "ReadyNone") =>
        /\ negotiating_in = <<>>
        /\ negotiating_out = <<>>
        /\ queued_dial_upgrades = <<>>

\* The correlation data the handler supplied in the request that was given
\* id k.
OriginalInfo(k) == emitted[k + 1].info

\* Whether call c reports the outcome of an outbound negotiation.
IsNegotiationOutcome(c) ==
    \/ c.call = "inject_fully_negotiated" /\ c.endpoint = "Dialer"
    \/ c.call = "inject_dial_upgrade_error" /\ c.error.kind = "Other"

\* The pair (upgrade_id, user_data) is one the adapter emitted: the caller
\* passes back the correlation data it was given with the id.
PassedBack(upgrade_id, user_data) ==
    /\ upgrade_id < Len(emitted)
    /\ user_data = OriginalInfo(upgrade_id)

\* C15: inject_substream(Dialer((k, d))) for a queued id k, with (k, d) the
\* pair the adapter emitted, adds one outbound negotiation for k tagged with
\* the correlation data the handler supplied in the request that was given
\* id k.  No step alters the tag of a negotiation, and every
\* inject_fully_negotiated(Dialer(info)) and inject_dial_upgrade_error(info, _)
\* call that reports the outcome of a negotiation is made by poll() with the
\* tag of that negotiation as info.
C15_TaggedWithOriginalInfo ==
    [][/\ \A k \in QuotedIds, d \in Infos :
            (/\ inject_substream_dialer(k, d)
             /\ Position(queued_dial_upgrades, k) # 0
             /\ PassedBack(k, d)) =>
                /\ Len(negotiating_out') = Len(negotiating_out) + 1
                /\ SubSeq(negotiating_out', 1, Len(negotiating_out)) = negotiating_out
                /\ negotiating_out'[Len(negotiating_out')].fut.req = k
                /\ negotiating_out'[Len(negotiating_out')].info = OriginalInfo(k)
       /\ \A i \in DOMAIN negotiating_out' :
            \/ \E j \in DOMAIN negotiating_out :
                  /\ negotiating_out[j].fut.req = negotiating_out'[i].fut.req
                  /\ negotiating_out[j].info = negotiating_out'[i].info
            \/ /\ last'.op = "inject_substream_dialer"
               /\ i = Len(negotiating_out')
       /\ \A j \in DOMAIN trace' :
            IsNegotiationOutcome(trace'[j]) =>
                /\ last'.op = "poll"
                /\ \E i \in DOMAIN negotiating_out :
                      /\ negotiating_out[i].fut.req = trace'[j].req
                      /\ negotiating_out[i].info = trace'[j].info
      ]_vars

\* The handler asked for A and then for B; the substream opened for the
\* second request was negotiated and the handler was told Dialer(B).
C15_Witness ==
    /\ Len(emitted) = 2
    /\ emitted[1].info = "A"
    /\ emitted[2].info = "B"
    /\ last.op = "poll"
    /\ \E c \in {trace[j] : j \in DOMAIN trace} :
          /\ c.call = "inject_fully_negotiated"
          /\ c.endpoint = "Dialer"
          /\ c.req = 1
          /\ c.info = "B"

\* C16: a poll() in which the handler yields OutboundSubstreamRequest
\* {upgrade, info} returns OutboundSubstreamRequest((id, info)) with id the
\* counter's value, appends the one entry (id, upgrade) to the queue and
\* advances the counter by one; any other poll() leaves queue and counter
\* alone.  No step alters an entry once queued, and
\* inject_substream(Dialer((id, _))) for a queued id starts one pending
\* negotiation of the upgrade held by the entry for id.
C16_RequestQueuedUnderEmittedId ==
    [][/\ last'.op = "poll" =>
            IF hret'.kind = "OutboundSubstreamRequest"
            THEN /\ ret' = NodeResult("OutboundSubstreamRequest", "none",
                                      unique_dial_upgrade_id, hret'.info)
                 /\ Len(queued_dial_upgrades') = Len(queued_dial_upgrades) + 1
                 /\ SubSeq(queued_dial_upgrades', 1, Len(queued_dial_upgrades))
                        = queued_dial_upgrades
                 /\ queued_dial_upgrades'[Len(queued_dial_upgrades')]
                        = [id |-> ret'.id, upgrade |-> hret'.upgrade]
                 /\ unique_dial_upgrade_id' = unique_dial_upgrade_id + 1
            ELSE UNCHANGED <<queued_dial_upgrades, unique_dial_upgrade_id>>
       /\ \A i \in DOMAIN queued_dial_upgrades' :
            \/ \E j \in DOMAIN queued_dial_upgrades :
                  queued_dial_upgrades[j] = queued_dial_upgrades'[i]
            \/ last'.op = "poll" /\ i = Len(queued_dial_upgrades')
       /\ \A k \in QuotedIds, d \in Infos :
            inject_substream_dialer(k, d) =>
                \A j \in DOMAIN queued_dial_upgrades :
                    queued_dial_upgrades[j].id = k =>
                        /\ Len(negotiating_out') = Len(negotiating_out) + 1
                        /\ negotiating_out'[Len(negotiating_out')].fut.upgrade
                               = queued_dial_upgrades[j].upgrade
                        /\ negotiating_out'[Len(negotiating_out')].fut.st = "pending"
                        /\ negotiating_out'[Len(negotiating_out')].fut.req = k
                        /\ SubSeq(negotiating_out', 1, Len(negotiating_out))
                               = negotiating_out
      ]_vars

\* The handler asked for u1 and then for u2; the step just taken is
\* inject_substream(Dialer((1, _))), which started a negotiation of u2 while
\* the entry (0, u1) stays queued.
C16_Witness ==
    /\ last = Last("inject_substream_dialer", 1)
    /\ Len(negotiating_out) = 1
    /\ negotiating_out[1].fut.upgrade = "u2"
    /\ negotiating_out[1].fut.req = 1
    /\ queued_dial_upgrades = <<[id |-> 0, upgrade |-> "u1"]>>
    /\ unique_dial_upgrade_id = 2

\* C17: inject_inbound_closed, inject_event(e) and shutdown each make exactly
\* one call on the wrapped handler, the operation of the same name with the
\* same argument, and change nothing of the adapter: not the inbound
\* collection, the outbound collection, the queue of dial upgrades, the id
\* counter or either timeout; the adapter keeps running.
C17_ForwardingChangesNothing ==
    [][/\ last'.op \in {"inject_inbound_closed", "inject_event", "shutdown"} =>
            /\ Len(trace') = 1
            /\ trace'[1].call = last'.op
            /\ UNCHANGED adapter
            /\ UNCHANGED <<status, calls, emitted>>
            /\ ret' = Unit
       /\ last'.op = "inject_inbound_closed" => trace' = <<inject_inbound_closed_call>>
       /\ last'.op = "shutdown" => trace' = <<shutdown_call>>
       /\ \A e \in InEvents : inject_event(e) => trace' = <<inject_event_call(e)>>
      ]_vars

\* The step just taken is a shutdown() that left a pending negotiation and a
\* queued dial upgrade in place.
C17_Witness ==
    /\ last.op = "shutdown"
    /\ trace = <<shutdown_call>>
    /\ status = "running"
    /\ Len(negotiating_in) + Len(negotiating_out) >= 1
    /\ queued_dial_upgrades # <<>>

\* C18: poll() returns an error only if the handler's poll() returned one in
\* the same call; a poll() that finds an inbound or outbound negotiation
\* failed or timed out, with the handler returning no error, returns no
\* error; and when poll() returns the handler's error both collections have
\* been drained first: every negotiation was advanced, only pending ones
\* remain, every settled outbound one has been reported, and the handler's
\* poll() is the last call made.
C18_ErrorsOnlyFromHandler ==
    /\ []((last.op = "poll" /\ ret.kind = "Err") =>
            (hret.kind = "Err" /\ trace[Len(trace)] = handler_poll_call))
    /\ [][last'.op = "poll" =>
            /\ ((\/ \E i \in DOMAIN negotiating_in :
                       negotiating_in[i].st \in {"failed", "elapsed"}
                 \/ \E i \in DOMAIN negotiating_out :
                       negotiating_out[i].fut.st \in {"failed", "elapsed"})
                /\ hret'.kind # "Err") =>
                   (ret'.kind # "Err" /\ status' # "failed")
            /\ ret'.kind = "Err" =>
                   /\ Len(advanced') = Len(negotiating_in) + Len(negotiating_out)
                   /\ \A i \in DOMAIN negotiating_in' :
                         negotiating_in'[i].st = "pending"
                   /\ \A i \in DOMAIN negotiating_out' :
                         negotiating_out'[i].fut.st = "pending"
                   /\ \A i \in DOMAIN negotiating_out :
                         negotiating_out[i].fut.st # "pending" =>
                             CountAbout(trace', negotiating_out[i].fut.req) = 1
      ]_vars

\* The step just taken is a poll() that reported a failed outbound
\* negotiation to the handler and then returned the handler's error.
C18_Witness ==
    /\ last.op = "poll"
    /\ ret.kind = "Err"
    /\ hret.kind = "Err"
    /\ status = "failed"
    /\ Len(trace) = 2
    /\ trace[1].call = "inject_dial_upgrade_error"
    /\ trace[2] = handler_poll_call

\* C19: the builder starts with both timeouts at 10 seconds;
\* with_in_negotiation_timeout(t) sets the inbound timeout to t and leaves the
\* outbound one, with_out_negotiation_timeout(t) the reverse; build() and every
\* operation of the built adapter leave both timeouts alone; a negotiation
\* started by inject_substream(Listener) carries the inbound timeout and one
\* started by inject_substream(Dialer) the outbound timeout.
C19_TimeoutsSetOnlyByBuilder ==
    /\ [](last.op = "none" =>
            (in_timeout = DefaultTimeoutSecs /\ out_timeout = DefaultTimeoutSecs))
    /\ [](/\ \A i \in DOMAIN negotiating_in :
                negotiating_in[i].timeout = in_timeout
          /\ \A i \in DOMAIN negotiating_out :
                negotiating_out[i].fut.timeout = out_timeout)
    /\ [][/\ \A t \in Durations :
               with_in_negotiation_timeout(t) =>
                   (in_timeout' = t /\ out_timeout' = out_timeout)
          /\ \A t \in Durations :
               with_out_negotiation_timeout(t) =>
                   (out_timeout' = t /\ in_timeout' = in_timeout)
          /\ last'.op \notin {"with_in_negotiation_timeout",
                              "with_out_negotiation_timeout"} =>
               UNCHANGED <<in_timeout, out_timeout>>
          /\ last'.op = "inject_substream_listener" =>
               /\ Len(negotiating_in') = Len(negotiating_in) + 1
               /\ negotiating_in'[Len(negotiating_in')].timeout = in_timeout
          /\ (last'.op = "inject_substream_dialer" /\ QueuedCount(last'.id) > 0) =>
               /\ Len(negotiating_out') = Len(negotiating_out) + 1
               /\ negotiating_out'[Len(negotiating_out')].fut.timeout = out_timeout
      ]_vars

\* The builder was given an inbound timeout of 1 second only, and the step
\* just taken started an inbound negotiation with a timeout of 1 second.
C19_Witness ==
    /\ in_timeout = 1
    /\ out_timeout = DefaultTimeoutSecs
    /\ last.op = "inject_substream_listener"
    /\ Len(negotiating_in) = 1
    /\ negotiating_in[1].timeout = 1

\* Number of entries of advanced list adv that are polls of the negotiation
\* on substream sub with result res.
AdvancedCount(adv, sub, res) ==
    Cardinality({j \in DOMAIN adv : adv[j].sub = sub /\ adv[j].result = res})

\* Number of entries of advanced list adv that are polls of the negotiation
\* on substream sub.
AdvancedTimes(adv, sub) ==
    Cardinality({j \in DOMAIN adv : adv[j].sub = sub})

\* C20: one poll() advances every negotiation that was in the inbound or the
\* outbound collection when it was called exactly once, and nothing else; when
\* it returns, each collection holds exactly the negotiations that reported
\* pending, unaltered and once each, whatever the number and the positions of
\* those that completed or failed.
C20_DrainIsExact ==
    [][last'.op = "poll" =>
          /\ Len(advanced') = Len(negotiating_in) + Len(negotiating_out)
          /\ \A i \in DOMAIN negotiating_in :
                /\ AdvancedTimes(advanced', negotiating_in[i].sub) = 1
                /\ AdvancedCount(advanced', negotiating_in[i].sub,
                                 FuturePoll(negotiating_in[i])) = 1
                /\ negotiating_in[i].st = "pending" <=>
                       \E j \in DOMAIN negotiating_in' :
                           negotiating_in'[j] = negotiating_in[i]
          /\ \A i \in DOMAIN negotiating_out :
                /\ AdvancedTimes(advanced', negotiating_out[i].fut.sub) = 1
                /\ AdvancedCount(advanced', negotiating_out[i].fut.sub,
                                 FuturePoll(negotiating_out[i].fut)) = 1
                /\ negotiating_out[i].fut.st = "pending" <=>
                       \E j \in DOMAIN negotiating_out' :
                           negotiating_out'[j] = negotiating_out[i]
          /\ Len(negotiating_in') =
                 Cardinality({i \in DOMAIN negotiating_in :
                                 negotiating_in[i].st = "pending"})
          /\ Len(negotiating_out') =
                 Cardinality({i \in DOMAIN negotiating_out :
                                 negotiating_out[i].fut.st = "pending"})
      ]_vars

\* The step just taken is a poll() of an outbound collection of three: the
\* last and the first negotiation reported pending, the middle one did not
\* and the handler was told of its outcome; the two pending ones remain, in
\* swapped order.
C20_Witness ==
    /\ last.op = "poll"
    /\ Len(advanced) = 3
    /\ advanced[1].result = "NotReady"
    /\ advanced[2].result # "NotReady"
    /\ advanced[3].result = "NotReady"
    /\ negotiating_in = <<>>
    /\ Len(negotiating_out) = 2
    /\ negotiating_out[1].fut.sub = advanced[1].sub
    /\ negotiating_out[2].fut.sub = advanced[3].sub
    /\ negotiating_out[1].fut.sub > negotiating_out[2].fut.sub
    /\ Len(trace) = 2
    /\ trace[1].req = 1

\* The same on an inbound collection of three.
C20_InboundSeen ==
    /\ last.op = "poll"
    /\ Len(advanced) = 3
    /\ advanced[1].result = "NotReady"
    /\ advanced[2].result # "NotReady"
    /\ advanced[3].result = "NotReady"
    /\ negotiating_out = <<>>
    /\ Len(negotiating_in) = 2
    /\ negotiating_in[1].sub = advanced[1].sub
    /\ negotiating_in[2].sub = advanced[3].sub
    /\ negotiating_in[1].sub > negotiating_in[2].sub

\* C21: the ids held by the queue of dial upgrades are pairwise distinct, each
\* is strictly smaller than the id counter, and the id counter equals the
\* number of OutboundSubstreamRequest events the adapter has emitted.
C21_QueueIdsDistinctBelowCounter ==
    /\ \A i, j \in DOMAIN queued_dial_upgrades :
          queued_dial_upgrades[i].id = queued_dial_upgrades[j].id => i = j
    /\ \A i \in DOMAIN queued_dial_upgrades :
          /\ queued_dial_upgrades[i].id >= 0
          /\ queued_dial_upgrades[i].id < unique_dial_upgrade_id
    /\ unique_dial_upgrade_id = Len(emitted)

\* Three requests were emitted and the second was closed: the queue holds
\* ids 0 and 2 and the counter is 3.
C21_Witness ==
    /\ unique_dial_upgrade_id = 3
    /\ Len(emitted) = 3
    /\ Len(queued_dial_upgrades) = 2
    /\ queued_dial_upgrades[1].id = 0
    /\ queued_dial_upgrades[2].id = 2

\* Whether queue q2 is queue q1 without its entry for id k, the other entries
\* in their order.
WithoutEntry(q1, q2, k) ==
    \E pos \in DOMAIN q1 :
        /\ q1[pos].id = k
        /\ Len(q2) = Len(q1) - 1
        /\ \A i \in DOMAIN q2 : q2[i] = IF i < pos THEN q1[i] ELSE q1[i + 1]

\* C22: the queue holds exactly one entry for every request that was emitted
\* and has not been answered.  It gains an entry only in a poll() in which
\* the handler asks for an outbound substream, and loses one only in an
\* inject_substream(Dialer) or inject_outbound_closed that quotes a queued id,
\* which removes that id's entry; the draining of poll(), the progress and
\* the timeouts of negotiations, inject_substream(Listener), inject_event,
\* inject_inbound_closed and shutdown leave it unchanged, so a request that is
\* not answered stays queued.
C22_QueueChangesOnlyByRequestAndAnswer ==
    /\ [](\A k \in Ids :
            IF k < unique_dial_upgrade_id
            THEN QueuedCount(k) + Consumed(k) = 1
            ELSE QueuedCount(k) + Consumed(k) = 0)
    /\ [][/\ queued_dial_upgrades' # queued_dial_upgrades =>
               \/ /\ last'.op = "poll"
                  /\ hret'.kind = "OutboundSubstreamRequest"
                  /\ queued_dial_upgrades' =
                         Append(queued_dial_upgrades,
                                [id |-> unique_dial_upgrade_id,
                                 upgrade |-> hret'.upgrade])
               \/ /\ last'.op \in {"inject_substream_dialer", "inject_outbound_closed"}
                  /\ QueuedCount(last'.id) = 1
                  /\ WithoutEntry(queued_dial_upgrades, queued_dial_upgrades', last'.id)
          /\ last'.op \in {"inject_substream_listener", "inject_event",
                           "inject_inbound_closed", "shutdown",
                           "upgrade_progress_in", "upgrade_progress_out",
                           "build", "with_in_negotiation_timeout",
                           "with_out_negotiation_timeout"} =>
               UNCHANGED queued_dial_upgrades
          /\ (last'.op = "poll" /\ hret'.kind # "OutboundSubstreamRequest") =>
               UNCHANGED queued_dial_upgrades
          /\ \A k \in Ids :
               (/\ QueuedCount(k) = 1
                /\ ~(/\ last'.op \in {"inject_substream_dialer",
                                      "inject_outbound_closed"}
                     /\ last'.id = k)) =>
                   QueuedIn(queued_dial_upgrades', k) = 1
      ]_vars

\* Request 0 is queued and unanswered; the step just taken is a poll() that
\* drained a timed-out negotiation, with the handler pending, and request 0
\* is still queued.
C22_Witness ==
    /\ last.op = "poll"
    /\ hret.kind = "NotReady"
    /\ \E j \in DOMAIN advanced : advanced[j].result = "Err"
    /\ Len(emitted) = 1
    /\ QueuedCount(0) = 1
    /\ Consumed(0) = 0

\* Whether call c is an outcome callback of an outbound request.
IsOutcome(c) ==
    /\ c.req # -1
    /\ \/ c.call = "inject_fully_negotiated" /\ c.endpoint = "Dialer"
       \/ c.call = "inject_dial_upgrade_error"

\* C23: over the whole run the handler receives at most one outcome callback
\* per outbound request id: no callback twice, and no two different callbacks
\* (a negotiated substream and an error, or two errors) for one id; an id
\* that has received its callback is neither queued nor being negotiated.
C23_OneOutcomePerRequest ==
    \A c \in BagToSet(calls) :
        IsOutcome(c) =>
            /\ calls[c] = 1
            /\ \A d \in BagToSet(calls) : d.req = c.req => d = c
            /\ QueuedCount(c.req) = 0
            /\ NegotiatingCount(c.req) = 0

\* Request 0 ended in a negotiated substream and request 1 in a dial-upgrade
\* error, one callback each.
C23_Witness ==
    /\ SettledCount(0) = 1
    /\ SettledCount(1) = 1
    /\ \E c \in BagToSet(calls) :
          c.req = 0 /\ c.call = "inject_fully_negotiated" /\ c.endpoint = "Dialer"
    /\ \E c \in BagToSet(calls) :
          c.req = 1 /\ c.call = "inject_dial_upgrade_error"

\* Whether request k, once it has been matched with a substream, has left
\* the outbound collection with its one callback delivered.
OutboundDone(k) ==
    /\ NegotiatingCount(k) = 0
    /\ (k < unique_dial_upgrade_id /\ QueuedCount(k) = 0) => SettledCount(k) = 1

\* C24: while the adapter keeps running and being polled and every
\* negotiation resolves in the end, no negotiation stays in its collection
\* for ever: again and again the inbound collection is found without the
\* negotiation on a given substream (a substream is delivered once, so a
\* negotiation that has left does not come back), and again and again a
\* given request is found out of the outbound collection with its one
\* callback delivered if it was ever negotiated.  The alternative is that
\* the adapter has stopped (terminal completion, an error or a panic), after
\* which nobody polls it.
C24_NegotiationsEventuallyLeave ==
    /\ \A sub \in Subs :
          []<>(~HoldsInbound(negotiating_in, sub) \/ status # "running")
    /\ \A k \in Ids :
          []<>(OutboundDone(k) \/ status # "running")

\* The adapter is running and has just been polled: an inbound and an
\* outbound negotiation that had resolved were advanced, both collections are
\* empty and request 0 has its callback.
C24_Witness ==
    /\ status = "running"
    /\ last.op = "poll"
    /\ \E j \in DOMAIN advanced :
          advanced[j].endpoint = "Listener" /\ advanced[j].result # "NotReady"
    /\ \E j \in DOMAIN advanced :
          advanced[j].endpoint = "Dialer" /\ advanced[j].result # "NotReady"
    /\ negotiating_in = <<>>
    /\ negotiating_out = <<>>
    /\ SettledCount(0) = 1

====
